---- MODULE Spec2Model ----
(***************************************************************************)
(* A model of the fast-floats crate (src/src/lib.rs): the wrapper Fast<F>, *)
(* its five binary operators in their three operand shapes, the compound   *)
(* assignment operators, unary negation and the elementary functions of    *)
(* Fast<f32> and Fast<f64>.                                                *)
(*                                                                         *)
(* Floating-point values are modelled by a small binary-float-like format: *)
(* a value is a NaN (sign, payload), an infinity (sign) or a finite value  *)
(* (sign, magnitude), the magnitude counted in units of 1/Scale and at     *)
(* most MaxInt.  Both zeros, both infinities and NaNs of either sign and   *)
(* several payloads exist; results are rounded to nearest (ties to even)   *)
(* and overflow to infinity, as in IEEE-754.                               *)
(*                                                                         *)
(* The relaxed intrinsics (fadd_fast, ...) carry LLVM's "fast" flags: the  *)
(* result is the ordinary one when both operands and the result are        *)
(* finite (the sign of a zero result being insignificant), and is not      *)
(* defined otherwise; an undefined result is modelled as any value.  Each   *)
(* call is taken on its own: no reassociation or contraction across calls. *)
(*                                                                         *)
(* f32 and f64 share the value format; the two impl blocks of the          *)
(* elementary functions are the same text, so each method is modelled      *)
(* once, except signum, which is modelled per precision.                   *)
(***************************************************************************)
EXTENDS Integers, Sequences, FiniteSets, TLC

\* Bounds of the value domain.
MaxInt == 3
Scale == 2
MaxPayload == 2

MaxMag == MaxInt * Scale

Signs == {0, 1}

Float ==
    [k : {"fin"}, s : Signs, m : 0..MaxMag]
        \cup [k : {"inf"}, s : Signs, m : {0}]
        \cup [k : {"nan"}, s : Signs, m : 1..MaxPayload]

Fin(s, m) == [k |-> "fin", s |-> s, m |-> m]
Inf(s) == [k |-> "inf", s |-> s, m |-> 0]
NaNv(s, p) == [k |-> "nan", s |-> s, m |-> p]

\* std::f64::NAN / std::f32::NAN: the positive quiet NaN with no payload bits.
NAN == NaNv(0, 1)
INFINITY == Inf(0)
NEG_INFINITY == Inf(1)
PosZero == Fin(0, 0)
NegZero == Fin(1, 0)
\* the literal 1.0
One == Fin(0, Scale)

IsNaN(x) == x.k = "nan"
IsInf(x) == x.k = "inf"
IsFinite(x) == x.k = "fin"
IsZero(x) == x.k = "fin" /\ x.m = 0

\* n/d rounded to the nearest integer, ties to even (n >= 0, d > 0).
RoundDiv(n, d) ==
    LET q == n \div d
        r == n % d
    IN  IF 2 * r < d THEN q
        ELSE IF 2 * r > d THEN q + 1
        ELSE IF q % 2 = 0 THEN q ELSE q + 1

\* A finite result of sign s and magnitude m units, overflowing to infinity.
Mk(s, m) == IF m > MaxMag THEN Inf(s) ELSE Fin(s, m)

\* The signed number of units of a finite value.
Units(x) == IF x.s = 1 THEN 0 - x.m ELSE x.m

Xor(a, b) == IF a = b THEN 0 ELSE 1

\* The result of an operation one of whose operands is a NaN: that operand.
PropNaN(x, y) == IF IsNaN(x) THEN x ELSE y

(***************************************************************************)
(* Ordinary (IEEE-754) arithmetic of the primitive float types.            *)
(***************************************************************************)
f_neg(x) == [x EXCEPT !.s = 1 - x.s]

f_add(x, y) ==
    IF IsNaN(x) \/ IsNaN(y) THEN PropNaN(x, y)
    ELSE IF IsInf(x) /\ IsInf(y) THEN (IF x.s = y.s THEN x ELSE NAN)
    ELSE IF IsInf(x) THEN x
    ELSE IF IsInf(y) THEN y
    ELSE LET t == Units(x) + Units(y)
         IN  IF t = 0
             THEN Fin(IF x.s = 1 /\ y.s = 1 THEN 1 ELSE 0, 0)
             ELSE IF t < 0 THEN Mk(1, 0 - t) ELSE Mk(0, t)

f_sub(x, y) ==
    IF IsNaN(x) \/ IsNaN(y) THEN PropNaN(x, y) ELSE f_add(x, f_neg(y))

f_mul(x, y) ==
    IF IsNaN(x) \/ IsNaN(y) THEN PropNaN(x, y)
    ELSE IF (IsInf(x) /\ IsZero(y)) \/ (IsZero(x) /\ IsInf(y)) THEN NAN
    ELSE IF IsInf(x) \/ IsInf(y) THEN Inf(Xor(x.s, y.s))
    ELSE Mk(Xor(x.s, y.s), RoundDiv(x.m * y.m, Scale))

f_div(x, y) ==
    IF IsNaN(x) \/ IsNaN(y) THEN PropNaN(x, y)
    ELSE IF (IsInf(x) /\ IsInf(y)) \/ (IsZero(x) /\ IsZero(y)) THEN NAN
    ELSE IF IsInf(x) \/ IsZero(y) THEN Inf(Xor(x.s, y.s))
    ELSE IF IsInf(y) THEN Fin(Xor(x.s, y.s), 0)
    ELSE Mk(Xor(x.s, y.s), RoundDiv(x.m * Scale, y.m))

f_rem(x, y) ==
    IF IsNaN(x) \/ IsNaN(y) THEN PropNaN(x, y)
    ELSE IF IsInf(x) \/ IsZero(y) THEN NAN
    ELSE IF IsInf(y) THEN x
    ELSE Fin(x.s, x.m % y.m)

\* a == b and a < b of the primitive float types.
f_eq(x, y) ==
    /\ ~IsNaN(x)
    /\ ~IsNaN(y)
    /\ \/ x = y
       \/ IsZero(x) /\ IsZero(y)

f_lt(x, y) ==
    /\ ~IsNaN(x)
    /\ ~IsNaN(y)
    /\ ~f_eq(x, y)
    /\ IF IsInf(x) THEN x.s = 1
       ELSE IF IsInf(y) THEN y.s = 0
       ELSE Units(x) < Units(y)

\* The ordinary operation `a op b` that each operator is compared with.
Ordinary(method, x, y) ==
    CASE method = "add" -> f_add(x, y)
      [] method = "sub" -> f_sub(x, y)
      [] method = "mul" -> f_mul(x, y)
      [] method = "div" -> f_div(x, y)
      [] method = "rem" -> f_rem(x, y)

(***************************************************************************)
(* The relaxed intrinsics: the set of results a call can produce.          *)
(***************************************************************************)
IntrinsOp(intrins) ==
    CASE intrins = "fadd_fast" -> "add"
      [] intrins = "fsub_fast" -> "sub"
      [] intrins = "fmul_fast" -> "mul"
      [] intrins = "fdiv_fast" -> "div"
      [] intrins = "frem_fast" -> "rem"

Relaxed(intrins, x, y) ==
    LET r == Ordinary(IntrinsOp(intrins), x, y)
    IN  IF IsFinite(x) /\ IsFinite(y) /\ IsFinite(r)
        THEN IF r.m = 0 THEN {PosZero, NegZero} ELSE {r}
        ELSE Float

(***************************************************************************)
(* The wrapper.                                                            *)
(***************************************************************************)
Fast(x) == [val |-> x]

\* get, were it to return a canonical NaN for every NaN
get_canonical(self) == IF IsNaN(self.val) THEN NAN ELSE self.val

get(self) == self.val

from(x) == Fast(x)

\* #[derive(PartialEq, PartialOrd)]
eq(a, b) == f_eq(a.val, b.val)

lt(a, b) == f_lt(a.val, b.val)

(***************************************************************************)
(* An execution of a method: the value returned and the calls of relaxed   *)
(* intrinsics made on the way, in order, each with its operands.           *)
(***************************************************************************)
Call(intrins, x, y) == [intrins |-> intrins, x |-> x, y |-> y]

Exec(ret, calls) == [ret |-> ret, calls |-> calls]

Pure(ret) == {Exec(ret, <<>>)}

\* Run E, then K on what E returned.
Then(E, K(_)) ==
    UNION {{Exec(e2.ret, e1.calls \o e2.calls) : e2 \in K(e1.ret)} : e1 \in E}

(***************************************************************************)
(* impl_op!: the five operators in their three operand shapes.             *)
(***************************************************************************)
Methods == {"add", "sub", "mul", "div", "rem"}

\* the invocation of impl_op!, were the Sub row to name the add intrinsic
Intrins_sub_as_add(method) ==
    CASE method = "add" -> "fadd_fast"
      [] method = "sub" -> "fadd_fast"
      [] method = "mul" -> "fmul_fast"
      [] method = "div" -> "fdiv_fast"
      [] method = "rem" -> "frem_fast"

Intrins(method) ==
    CASE method = "add" -> "fadd_fast"
      [] method = "sub" -> "fsub_fast"
      [] method = "mul" -> "fmul_fast"
      [] method = "div" -> "fdiv_fast"
      [] method = "rem" -> "frem_fast"

\* Fast<F> + F
op_Fast_F(method, self, rhs) ==
    {Exec(Fast(r), <<Call(Intrins(method), self.val, rhs)>>) :
        r \in Relaxed(Intrins(method), self.val, rhs)}

\* F + Fast<F>, were it to put the wrapped operand on the left
op_F_Fast_swapped(method, self, rhs) == op_Fast_F(method, rhs, self)

\* F + Fast<F>
op_F_Fast(method, self, rhs) == op_Fast_F(method, Fast(self), rhs.val)

\* Fast<F> + Fast<F>
op_Fast_Fast(method, self, rhs) == op_Fast_F(method, self, rhs.val)

(***************************************************************************)
(* impl_assignop!: the five compound assignments, for a bare or a wrapped  *)
(* right-hand side.                                                        *)
(***************************************************************************)
AssignMethods ==
    {"add_assign", "sub_assign", "mul_assign", "div_assign", "rem_assign"}

op_assign(method, self, rhs, wrapped) ==
    IF wrapped
    THEN op_Fast_Fast("add", self, Fast(rhs))
    ELSE op_Fast_F("add", self, rhs)

\* The operator a compound assignment is named after.
AssignOf(method) ==
    CASE method = "add_assign" -> "add"
      [] method = "sub_assign" -> "sub"
      [] method = "mul_assign" -> "mul"
      [] method = "div_assign" -> "div"
      [] method = "rem_assign" -> "rem"

\* negation, were it written as the subtraction 0.0 - x
neg_by_sub(self) == Fast(f_sub(PosZero, self.val))

\* impl Neg
neg(self) == Fast(f_neg(self.val))

(***************************************************************************)
(* The ordinary math intrinsics behind the elementary functions.  They are *)
(* total: each has a result for every value, NaNs and infinities included. *)
(***************************************************************************)
Frac(x) == x.m % Scale

floorf(x) ==
    IF ~IsFinite(x) \/ Frac(x) = 0 THEN x
    ELSE IF x.s = 0 THEN Fin(0, x.m - Frac(x))
    ELSE Fin(1, x.m - Frac(x) + Scale)

ceilf(x) ==
    IF ~IsFinite(x) \/ Frac(x) = 0 THEN x
    ELSE IF x.s = 0 THEN Fin(0, x.m - Frac(x) + Scale)
    ELSE Fin(1, x.m - Frac(x))

\* half-way cases away from zero
roundf(x) ==
    IF ~IsFinite(x) THEN x
    ELSE Fin(x.s, ((2 * x.m + Scale) \div (2 * Scale)) * Scale)

truncf(x) == IF ~IsFinite(x) THEN x ELSE Fin(x.s, x.m - Frac(x))

fabsf(x) == [x EXCEPT !.s = 0]

copysignf(x, y) == [x EXCEPT !.s = y.s]

\* x * a + b, rounded once
fmaf(x, a, b) ==
    IF IsNaN(x) THEN x
    ELSE IF IsNaN(a) THEN a
    ELSE IF IsNaN(b) THEN b
    ELSE IF (IsInf(x) /\ IsZero(a)) \/ (IsZero(x) /\ IsInf(a)) THEN NAN
    ELSE IF IsInf(x) \/ IsInf(a)
         THEN IF IsInf(b) /\ b.s # Xor(x.s, a.s) THEN NAN ELSE Inf(Xor(x.s, a.s))
    ELSE IF IsInf(b) THEN b
    ELSE LET ps == Xor(x.s, a.s)
             p  == IF ps = 1 THEN 0 - (x.m * a.m) ELSE x.m * a.m
             n  == p + Units(b) * Scale
         IN  IF n = 0 THEN Fin(IF ps = 1 /\ b.s = 1 THEN 1 ELSE 0, 0)
             ELSE IF n < 0 THEN Mk(1, RoundDiv(0 - n, Scale))
             ELSE Mk(0, RoundDiv(n, Scale))

\* the correctly rounded square root
sqrtf(x) ==
    IF IsNaN(x) \/ IsZero(x) THEN x
    ELSE IF x.s = 1 THEN NAN
    ELSE IF IsInf(x) THEN x
    ELSE Fin(0, CHOOSE r \in 0..MaxMag :
                    /\ (2 * r - 1) * (2 * r - 1) <= 4 * x.m * Scale
                    /\ 4 * x.m * Scale < (2 * r + 1) * (2 * r + 1))

\* x^n by repeated multiplication; x^0 is 1 for every x.
RECURSIVE powif(_, _)
powif(x, n) ==
    IF n = 0 THEN One
    ELSE IF n > 0 THEN f_mul(x, powif(x, n - 1))
    ELSE f_div(One, powif(x, 0 - n))

(***************************************************************************)
(* The transcendental intrinsics, computed to three decimal places before  *)
(* the result is rounded to the format.  Arguments and results that are    *)
(* "milli" are thousandths.                                                *)
(***************************************************************************)
\* ln(n) in thousandths, for the integers 1..16
LnTable ==
    <<0, 693, 1099, 1386, 1609, 1792, 1946, 2079,
      2197, 2303, 2398, 2485, 2565, 2639, 2708, 2773>>

\* The largest exponent whose power is computed: e^(MaxInt + 2) overflows the
\* format, and e^-(MaxInt + 2) rounds as every smaller power does.
ExpCap == 1000 * (MaxInt + 2)

\* The j-th term a^j / j! of the exponential series, in thousandths.
RECURSIVE SeriesTerm(_, _)
SeriesTerm(a, j) ==
    IF j = 0 THEN 1000 ELSE (SeriesTerm(a, j - 1) * a) \div (1000 * j)

RECURSIVE SumTerms(_, _, _, _)
SumTerms(a, j, step, last) ==
    IF j > last THEN 0 ELSE SeriesTerm(a, j) + SumTerms(a, j + step, step, last)

\* e^(a/1000) in thousandths, a >= 0
ExpMilli(a) ==
    LET c == IF a > ExpCap THEN ExpCap ELSE a
    IN  SumTerms(c, 0, 1, 40)

\* sin(a/1000) and cos(a/1000) in thousandths, a >= 0
SinMilli(a) == SumTerms(a, 1, 4, 40) - SumTerms(a, 3, 4, 40)

CosMilli(a) == SumTerms(a, 0, 4, 40) - SumTerms(a, 2, 4, 40)

\* The magnitude of a finite value in thousandths.
Milli(x) == RoundDiv(x.m * 1000, Scale)

\* A signed number of thousandths as a value of the format.
OfMilli(t, d) ==
    IF t < 0 THEN Mk(1, RoundDiv((0 - t) * Scale, d))
    ELSE Mk(0, RoundDiv(t * Scale, d))

\* e^t for a signed exponent of t thousandths.
ExpOf(s, t) ==
    IF t >= 0 THEN Mk(s, RoundDiv(ExpMilli(t) * Scale, 1000))
    ELSE Mk(s, RoundDiv(Scale * 1000, ExpMilli(0 - t)))

expf(x) ==
    IF IsNaN(x) THEN x
    ELSE IF IsInf(x) THEN (IF x.s = 0 THEN x ELSE PosZero)
    ELSE ExpOf(0, IF x.s = 1 THEN 0 - Milli(x) ELSE Milli(x))

exp2f(x) ==
    IF IsNaN(x) THEN x
    ELSE IF IsInf(x) THEN (IF x.s = 0 THEN x ELSE PosZero)
    ELSE LET t == RoundDiv(x.m * LnTable[2], Scale)
         IN  ExpOf(0, IF x.s = 1 THEN 0 - t ELSE t)

\* ln(x) in thousandths, x finite and positive
LnMilli(x) == LnTable[x.m] - LnTable[Scale]

\* the logarithm of x, d the logarithm of the base in thousandths
LogBy(x, d) ==
    IF IsNaN(x) THEN x
    ELSE IF IsZero(x) THEN NEG_INFINITY
    ELSE IF x.s = 1 THEN NAN
    ELSE IF IsInf(x) THEN x
    ELSE OfMilli(LnMilli(x), d)

logf(x) == LogBy(x, 1000)

log2f(x) == LogBy(x, LnTable[2])

log10f(x) == LogBy(x, LnTable[10])

sinf(x) ==
    IF IsNaN(x) \/ IsZero(x) THEN x
    ELSE IF IsInf(x) THEN NAN
    ELSE LET t == SinMilli(Milli(x))
         IN  OfMilli(IF x.s = 1 THEN 0 - t ELSE t, 1000)

cosf(x) ==
    IF IsNaN(x) THEN x
    ELSE IF IsInf(x) THEN NAN
    ELSE OfMilli(CosMilli(Milli(x)), 1000)

IsInteger(y) == IsFinite(y) /\ Frac(y) = 0

IsOddInteger(y) == IsInteger(y) /\ (y.m \div Scale) % 2 = 1

\* pow(x, y), with the special cases of C99 Annex F
powf(x, y) ==
    IF IsZero(y) \/ x = One THEN One
    ELSE IF IsNaN(x) \/ IsNaN(y) THEN PropNaN(x, y)
    ELSE LET rs == IF x.s = 1 /\ IsOddInteger(y) THEN 1 ELSE 0
         IN  IF IsZero(x) THEN (IF y.s = 1 THEN Inf(rs) ELSE Fin(rs, 0))
             ELSE IF IsInf(y)
                  THEN IF IsFinite(x) /\ x.m = Scale THEN One
                       ELSE IF (IsFinite(x) /\ x.m < Scale) <=> (y.s = 1)
                            THEN INFINITY ELSE PosZero
             ELSE IF IsInf(x) THEN (IF y.s = 1 THEN Fin(rs, 0) ELSE Inf(rs))
             ELSE IF x.s = 1 /\ ~IsInteger(y) THEN NAN
             ELSE LET l == LnMilli(x)
                      a == RoundDiv(y.m * (IF l < 0 THEN 0 - l ELSE l), Scale)
                  IN  ExpOf(rs, IF (l < 0) = (y.s = 1) THEN a ELSE 0 - a)

(***************************************************************************)
(* impl Fast<f32> / impl Fast<f64>: the elementary functions.  The two     *)
(* impl blocks are the same text over the intrinsics of their precision.   *)
(***************************************************************************)
floor(self) == Pure(Fast(floorf(self.val)))

ceil(self) == Pure(Fast(ceilf(self.val)))

round(self) == Pure(Fast(roundf(self.val)))

trunc(self) == Pure(Fast(truncf(self.val)))

fract(self) == Then(trunc(self), LAMBDA t : op_Fast_Fast("sub", self, t))

abs(self) == Pure(Fast(fabsf(self.val)))

is_nan(self) == Pure(IsNaN(self.val))

signum_f32(self) ==
    IF IsNaN(self.val) THEN Pure(Fast(NAN))
    ELSE Pure(Fast(copysignf(One, self.val)))

\* signum, were it to return a zero for a zero
signum_zero(self) ==
    IF IsNaN(self.val) THEN Pure(Fast(NAN))
    ELSE IF IsZero(self.val) THEN Pure(self)
    ELSE Pure(Fast(copysignf(One, self.val)))

signum_f64(self) ==
    IF IsNaN(self.val) THEN Pure(Fast(NAN))
    ELSE Pure(Fast(copysignf(One, self.val)))

copysign(self, y) == Pure(Fast(copysignf(self.val, y.val)))

mul_add(self, a, b) == Pure(Fast(fmaf(self.val, a.val, b.val)))

powi(self, n) == Pure(Fast(powif(self.val, n)))

powf_(self, n) == Pure(Fast(powf(self.val, n.val)))

sqrt(self) == Pure(Fast(sqrtf(self.val)))

exp(self) == Pure(Fast(expf(self.val)))

exp2(self) == Pure(Fast(exp2f(self.val)))

ln(self) == Pure(Fast(logf(self.val)))

log(self, base) ==
    Then(ln(self), LAMBDA a :
        Then(ln(base), LAMBDA b : op_Fast_Fast("div", a, b)))

log2(self) == Pure(Fast(log2f(self.val)))

log10(self) == Pure(Fast(log10f(self.val)))

sin(self) == Pure(Fast(sinf(self.val)))

cos(self) == Pure(Fast(cosf(self.val)))

sin_cos(self) ==
    Then(sin(self), LAMBDA a : Then(cos(self), LAMBDA b : Pure(<<a, b>>)))

asinh(self) ==
    IF self.val = NEG_INFINITY THEN Pure(self)
    ELSE Then(op_Fast_Fast("mul", self, self), LAMBDA sq :
         Then(op_Fast_F("add", sq, One), LAMBDA t :
         Then(sqrt(t), LAMBDA r :
         Then(op_Fast_Fast("add", self, r), LAMBDA u : ln(u)))))

acosh(self) ==
    IF lt(self, from(One)) THEN Pure(from(NAN))
    ELSE Then(op_Fast_Fast("mul", self, self), LAMBDA sq :
         Then(op_Fast_F("sub", sq, One), LAMBDA t :
         Then(sqrt(t), LAMBDA r :
         Then(op_Fast_Fast("add", self, r), LAMBDA u : ln(u)))))

(***************************************************************************)
(* The state: a program holds one wrapped value v of precision prec and    *)
(* applies the crate's operations to it.  opn, shape, lhs, rhs and thd     *)
(* record the last operation and its operands, out what it returned and    *)
(* calls the relaxed intrinsics it called.                                 *)
(***************************************************************************)
VARIABLES prec, v, opn, shape, lhs, rhs, thd, out, calls

vars == <<prec, v, opn, shape, lhs, rhs, thd, out, calls>>

Precs == {"f32", "f64"}

\* Largest |n| of powi(x, n).
MaxExp == 2

\* an operand slot that the last operation does not use
None == [k |-> "none", s |-> 0, m |-> 0]

\* #[derive(Default)]: Fast(0.0)
Init ==
    /\ prec \in Precs
    /\ v = Fast(PosZero)
    /\ opn = "default"
    /\ shape = "none"
    /\ lhs = PosZero
    /\ rhs = None
    /\ thd = None
    /\ out = Fast(PosZero)
    /\ calls = <<>>

\* A value has been constructed and no operation applied to it yet.
Ready == opn \in {"default", "construct", "from"}

\* One operation: some execution e of E, the result stored
\* back into v unless the operation returns something other than a wrapped
\* value.
Do(name, sh, E, a, b, c, keep) ==
    \E e \in E :
        /\ opn' = name
        /\ shape' = sh
        /\ lhs' = a
        /\ rhs' = b
        /\ thd' = c
        /\ out' = e.ret
        /\ calls' = e.calls
        /\ v' = IF keep THEN v ELSE e.ret
        /\ UNCHANGED prec

\* let v = Fast(x)
Construct ==
    \E x \in Float, p \in Precs :
        /\ Ready
        /\ prec' = p
        /\ v' = Fast(x)
        /\ opn' = "construct"
        /\ shape' = "none"
        /\ lhs' = x
        /\ rhs' = None
        /\ thd' = None
        /\ out' = Fast(x)
        /\ calls' = <<>>

\* let v: Fast<F> = x.into()
From ==
    \E x \in Float, p \in Precs :
        /\ Ready
        /\ prec' = p
        /\ v' = from(x)
        /\ opn' = "from"
        /\ shape' = "none"
        /\ lhs' = x
        /\ rhs' = None
        /\ thd' = None
        /\ out' = from(x)
        /\ calls' = <<>>

\* The program goes on with the value it holds: let v = Fast(v.0)
Rebind ==
    /\ ~Ready
    /\ v' = Fast(v.val)
    /\ opn' = "construct"
    /\ shape' = "none"
    /\ lhs' = v.val
    /\ rhs' = None
    /\ thd' = None
    /\ out' = Fast(v.val)
    /\ calls' = <<>>
    /\ UNCHANGED prec

\* v.get(), v being the value constructed from lhs
Get ==
    /\ Ready
    /\ Do("get", "none", Pure(get(v)), lhs, None, None, TRUE)

Neg ==
    /\ Ready
    /\ Do("neg", "none", Pure(neg(v)), v.val, None, None, FALSE)

\* v = v op b
Op_Fast_F ==
    /\ Ready
    /\ \E method \in Methods, b \in Float :
        Do(method, "Fast_F", op_Fast_F(method, v, b), v.val, b, None, FALSE)

\* v = a op v
Op_F_Fast ==
    /\ Ready
    /\ \E method \in Methods, a \in Float :
        Do(method, "F_Fast", op_F_Fast(method, a, v), a, v.val, None, FALSE)

\* v = v op Fast(b)
Op_Fast_Fast ==
    /\ Ready
    /\ \E method \in Methods, b \in Float :
        Do(method, "Fast_Fast", op_Fast_Fast(method, v, Fast(b)),
           v.val, b, None, FALSE)

\* v op= b and v op= Fast(b)
OpAssign ==
    /\ Ready
    /\ \E method \in AssignMethods, b \in Float, wrapped \in BOOLEAN :
        Do(method, IF wrapped THEN "Fast_Fast" ELSE "Fast_F",
           op_assign(method, v, b, wrapped), v.val, b, None, FALSE)

Floor ==
    /\ Ready
    /\ Do("floor", "none", floor(v), v.val, None, None, FALSE)

Ceil ==
    /\ Ready
    /\ Do("ceil", "none", ceil(v), v.val, None, None, FALSE)

Round ==
    /\ Ready
    /\ Do("round", "none", round(v), v.val, None, None, FALSE)

Trunc ==
    /\ Ready
    /\ Do("trunc", "none", trunc(v), v.val, None, None, FALSE)

Fract ==
    /\ Ready
    /\ Do("fract", "none", fract(v), v.val, None, None, FALSE)

Abs ==
    /\ Ready
    /\ Do("abs", "none", abs(v), v.val, None, None, FALSE)

IsNan ==
    /\ Ready
    /\ Do("is_nan", "none", is_nan(v), v.val, None, None, TRUE)

Signum ==
    /\ Ready
    /\ Do("signum", "none",
          IF prec = "f32" THEN signum_f32(v) ELSE signum_f64(v),
          v.val, None, None, FALSE)

Copysign ==
    /\ Ready
    /\ \E y \in Float :
        Do("copysign", "none", copysign(v, Fast(y)), v.val, y, None, FALSE)

MulAdd ==
    /\ Ready
    /\ \E a \in Float, b \in Float :
        Do("mul_add", "none", mul_add(v, Fast(a), Fast(b)), v.val, a, b, FALSE)

Powi ==
    /\ Ready
    /\ \E n \in (0 - MaxExp)..MaxExp :
        Do("powi", "none", powi(v, n), v.val, None, n, FALSE)

Powf ==
    /\ Ready
    /\ \E n \in Float :
        Do("powf", "none", powf_(v, Fast(n)), v.val, n, None, FALSE)

Sqrt ==
    /\ Ready
    /\ Do("sqrt", "none", sqrt(v), v.val, None, None, FALSE)

Exp ==
    /\ Ready
    /\ Do("exp", "none", exp(v), v.val, None, None, FALSE)

Exp2 ==
    /\ Ready
    /\ Do("exp2", "none", exp2(v), v.val, None, None, FALSE)

Ln ==
    /\ Ready
    /\ Do("ln", "none", ln(v), v.val, None, None, FALSE)

Log ==
    /\ Ready
    /\ \E base \in Float :
        Do("log", "none", log(v, Fast(base)), v.val, base, None, FALSE)

Log2 ==
    /\ Ready
    /\ Do("log2", "none", log2(v), v.val, None, None, FALSE)

Log10 ==
    /\ Ready
    /\ Do("log10", "none", log10(v), v.val, None, None, FALSE)

Sin ==
    /\ Ready
    /\ Do("sin", "none", sin(v), v.val, None, None, FALSE)

Cos ==
    /\ Ready
    /\ Do("cos", "none", cos(v), v.val, None, None, FALSE)

SinCos ==
    /\ Ready
    /\ Do("sin_cos", "none", sin_cos(v), v.val, None, None, TRUE)

Asinh ==
    /\ Ready
    /\ Do("asinh", "none", asinh(v), v.val, None, None, FALSE)

Acosh ==
    /\ Ready
    /\ Do("acosh", "none", acosh(v), v.val, None, None, FALSE)

Next ==
    \/ Construct
    \/ Rebind
    \/ From
    \/ Get
    \/ Neg
    \/ Op_Fast_F
    \/ Op_F_Fast
    \/ Op_Fast_Fast
    \/ OpAssign
    \/ Floor
    \/ Ceil
    \/ Round
    \/ Trunc
    \/ Fract
    \/ Abs
    \/ IsNan
    \/ Signum
    \/ Copysign
    \/ MulAdd
    \/ Powi
    \/ Powf
    \/ Sqrt
    \/ Exp
    \/ Exp2
    \/ Ln
    \/ Log
    \/ Log2
    \/ Log10
    \/ Sin
    \/ Cos
    \/ SinCos
    \/ Asinh
    \/ Acosh

Spec == Init /\ [][Next]_vars

(***************************************************************************)
(* Properties.                                                             *)
(***************************************************************************)
ElemMethods ==
    {"floor", "ceil", "round", "trunc", "fract", "abs", "is_nan", "signum",
     "copysign", "mul_add", "powi", "powf", "sqrt", "exp", "exp2", "ln",
     "log", "log2", "log10", "sin", "cos", "sin_cos", "asinh", "acosh"}

Shapes == {"Fast_F", "F_Fast", "Fast_Fast"}

Two == Fin(0, 2 * Scale)

\* The relaxed primitive each operator is to be bound to.
OwnPrimitive(method) ==
    CASE method = "add" -> "fadd_fast"
      [] method = "sub" -> "fsub_fast"
      [] method = "mul" -> "fmul_fast"
      [] method = "div" -> "fdiv_fast"
      [] method = "rem" -> "frem_fast"

\* The last operation was a binary operator on finite operands.
FiniteOperands == IsFinite(lhs) /\ IsFinite(rhs)

\* C1: after `v op= b` from v = construct(a), a and b finite (b non-zero for
\* /= and %=) and a op b finite, v holds construct(a op b), for each of the
\* five compound assignments.
C1_CompoundAssignEquivalence ==
    (/\ opn \in AssignMethods
     /\ FiniteOperands
     /\ AssignOf(opn) \in {"div", "rem"} => ~IsZero(rhs)
     /\ IsFinite(Ordinary(AssignOf(opn), lhs, rhs)))
        => eq(v, Fast(Ordinary(AssignOf(opn), lhs, rhs)))

\* C2, as stated: for all finite a and b (non-zero b for %),
\* construct(a) op construct(b) equals construct(a op b) and the operator
\* calls its own relaxed primitive, once, on a and b.
C2_SingleOpAllFinite ==
    (/\ opn \in Methods
     /\ shape = "Fast_Fast"
     /\ FiniteOperands
     /\ opn = "rem" => ~IsZero(rhs))
        => /\ eq(v, Fast(Ordinary(opn, lhs, rhs)))
           /\ calls = <<Call(OwnPrimitive(opn), lhs, rhs)>>

\* C2, amended: for all finite a and b whose ordinary result a op b is finite
\* (so no zero divisor for / and %, and no overflow),
\* construct(a) op construct(b) equals construct(a op b), and the operator
\* calls its own relaxed primitive, once, on a and b.
C2_SingleOpEquivalence ==
    (/\ opn \in Methods
     /\ shape = "Fast_Fast"
     /\ FiniteOperands
     /\ IsFinite(Ordinary(opn, lhs, rhs)))
        => /\ eq(v, Fast(Ordinary(opn, lhs, rhs)))
           /\ calls = <<Call(OwnPrimitive(opn), lhs, rhs)>>

\* construct(2.0) - construct(1.0) has returned construct(1.0)
C2_Witness ==
    /\ opn = "sub"
    /\ shape = "Fast_Fast"
    /\ lhs = Two
    /\ rhs = One
    /\ v = Fast(One)
    /\ calls = <<Call("fsub_fast", Two, One)>>

\* Every result the three operand shapes can return for a op b.
AllShapes(method, a, b) ==
    {e.ret : e \in op_Fast_Fast(method, Fast(a), Fast(b))
                    \cup op_Fast_F(method, Fast(a), b)
                    \cup op_F_Fast(method, a, Fast(b))}

\* C3, as stated: for all finite a and b the three operand shapes return the
\* same wrapped value, construct(a op b), the left operand staying on the left.
C3_ShapesAllFinite ==
    (/\ opn \in Methods
     /\ shape \in Shapes
     /\ FiniteOperands)
        => /\ eq(v, Fast(Ordinary(opn, lhs, rhs)))
           /\ \A r \in AllShapes(opn, lhs, rhs) : eq(r, v)

\* C3, amended: for all finite a and b whose ordinary result a op b is finite,
\* the three operand shapes return the same wrapped value, construct(a op b),
\* the left operand staying on the left.
C3_ShapeSymmetry ==
    (/\ opn \in Methods
     /\ shape \in Shapes
     /\ FiniteOperands
     /\ IsFinite(Ordinary(opn, lhs, rhs)))
        => /\ eq(v, Fast(Ordinary(opn, lhs, rhs)))
           /\ \A r \in AllShapes(opn, lhs, rhs) : eq(r, v)

\* 2.0 - construct(1.0) has returned construct(1.0)
C3_Witness ==
    /\ opn = "sub"
    /\ shape = "F_Fast"
    /\ lhs = Two
    /\ rhs = One
    /\ v = Fast(One)

\* C4: no elementary function hands a NaN or an infinite operand to a relaxed
\* operator, whatever its input.
C4_ElementaryTotality ==
    opn \in ElemMethods
        => \A i \in 1..Len(calls) : IsFinite(calls[i].x) /\ IsFinite(calls[i].y)

\* C5: construct(x).get() is x, bit for bit, for every x; the conversion from
\* a bare value stores the value the constructor stores, unchanged.
C5_RoundTrip ==
    /\ opn = "get" => out = lhs
    /\ opn \in {"construct", "from"} => v.val = lhs /\ v = Fast(lhs)

\* construct(x).get() has returned x, a negative NaN with a payload
C5_Witness ==
    /\ opn = "get"
    /\ lhs = NaNv(1, MaxPayload)
    /\ out = NaNv(1, MaxPayload)

\* C6: -construct(x) is construct(-x) for every x: the sign flipped, the rest
\* of the value (a NaN's payload too) kept, no relaxed primitive called, and
\* negating again gives the original back.
C6_NegationTotal ==
    opn = "neg"
        => /\ v.val.k = lhs.k
           /\ v.val.m = lhs.m
           /\ v.val.s = 1 - lhs.s
           /\ calls = <<>>
           /\ neg(v) = Fast(lhs)

\* -construct(-0.0) has returned construct(+0.0)
C6_Witness ==
    /\ opn = "neg"
    /\ lhs = NegZero
    /\ v = Fast(PosZero)

\* C7: signum is NaN for a NaN and otherwise exactly +1 or -1 with the sign
\* of the input, zeros and infinities included; both precisions agree.
C7_Signum ==
    opn = "signum"
        => /\ IF IsNaN(lhs) THEN IsNaN(v.val)
              ELSE v.val = Fin(lhs.s, Scale)
           /\ signum_f32(Fast(lhs)) = signum_f64(Fast(lhs))
           /\ calls = <<>>

\* construct(-0.0).signum() has returned construct(-1.0), in double precision
C7_Witness ==
    /\ opn = "signum"
    /\ prec = "f64"
    /\ lhs = NegZero
    /\ v = Fast(Fin(1, Scale))

\* C8: acosh(x) is NaN for x < 1 and ln(x + sqrt(x*x - 1)) for every other x,
\* a NaN taking the formula branch.
C8_Acosh ==
    opn = "acosh"
        => IF f_lt(lhs, One) THEN IsNaN(v.val)
           ELSE v = Fast(logf(f_add(lhs, sqrtf(f_sub(f_mul(lhs, lhs), One)))))

\* C9: asinh(x) is x for x = -infinity and ln(x + sqrt(x*x + 1)) for every
\* other x, +infinity and NaN included.
C9_Asinh ==
    opn = "asinh"
        => IF lhs = NEG_INFINITY THEN v = Fast(lhs) /\ calls = <<>>
           ELSE v = Fast(logf(f_add(lhs, sqrtf(f_add(f_mul(lhs, lhs), One)))))

\* C10: the relaxed primitives are called by the five binary operators and
\* their compound assignments only; no elementary function calls one.
C10_Separation ==
    /\ opn \in ElemMethods => calls = <<>>
    /\ calls # <<>> => opn \in Methods \cup AssignMethods

====
